---- MODULE Spec2Model ----
(***************************************************************************)
(* s3_multipart_uploader.py as a state machine: one run of upload_file     *)
(* (mkdtemp, split_input_file, get_file_hash, upload_file_pieces, rmtree)  *)
(* against a remote object store with multipart semantics.                 *)
(*                                                                         *)
(* The program is Python 2 (iter(read_chunk, '') ends on the empty str,    *)
(* the tests write str to binary files): an exception raised in a finally  *)
(* block replaces the exception that was propagating, with no chaining.    *)
(*                                                                         *)
(* Every remote call and every file operation of the run either returns or *)
(* raises. A remote call that raises leaves the store as it was; rmtree on *)
(* the directory the run created is taken to succeed.                      *)
(***************************************************************************)
EXTENDS Integers, Sequences, FiniteSets, TLC

\* ---------------------------------------------------------------- bounds
\* Largest source file, in bytes.
MaxFileSize == 3
\* Largest --file-piece-size, in bytes.
MaxPieceSize == 3
\* Number of distinct ETag tokens the store hands out.
NumETags == 2
\* Range of the digest abstraction (MD5 has 2^128 values).
HashMod == 5
\* Bytes per read of get_file_hash (hash_obj.block_size * 1024), scaled.
ReadChunk == 2

\* Largest source file and piece size of the runs of split_input_file alone.
MaxSplitFileSize == 50
MaxSplitPieceSize == 20

Bytes == {0, 1}
ETags == 1..NumETags

VARIABLES
    original_file,        \* bytes of original_filename (read-only input)
    file_piece_size,      \* argument of upload_file
    keep_file_pieces,     \* argument of upload_file
    store_faithful,       \* whether head_object reports the assembled object
    pc,                   \* position of the run
    exc,                  \* the exception that is propagating, or "none"
    temp_dir,             \* "none", "exists" or "removed"
    piece_files,          \* contents of the piece files in temp_dir, by index
    num_file_pieces,      \* split_input_file: num_file_pieces
    input_pos,            \* split_input_file: read offset in input_file
    file_piece_names,     \* split_input_file: file_piece_names
    expected_hash,        \* expected_complete_file_hash
    expected_size,        \* expected_complete_file_size
    upload_id,            \* upload_file_pieces: upload_id (0 = unbound)
    fileparts,            \* upload_file_pieces: fileparts['Parts']
    complete_mpu_response,\* upload_file_pieces: keys of complete_mpu_response
    index,                \* upload_file_pieces: loop index
    file_piece_hash,      \* upload_file_pieces: file_piece_hash
    head_object_response, \* upload_file_pieces: head_object_response
    passed,               \* descriptions of the assertions that passed
    failed,               \* descriptions of the assertions that failed
    ufp,                  \* upload_file_pieces: "not_called", "running", "returned", "raised"
    trigger,              \* first exception raised inside the try of upload_file_pieces
    session,              \* store: "none", "InProgress", "Completed", "Aborted"
    store_meta,           \* store: metadata attached at create
    store_parts,          \* store: uploaded parts, part number -> [ETag, Body]
    object,               \* store: the assembled object, <<>> or <<[Body, Metadata]>>
    calls,                \* log of the remote calls issued
    hash_obj,             \* get_file_hash: state of hash_obj
    hash_rest,            \* get_file_hash: bytes of file_ not read yet
    chunk                 \* get_file_hash: the chunk read last

vars == <<original_file, file_piece_size, keep_file_pieces, store_faithful, pc,
          exc, temp_dir, piece_files, num_file_pieces, input_pos,
          file_piece_names, expected_hash, expected_size, upload_id, fileparts,
          complete_mpu_response, index, file_piece_hash, head_object_response,
          passed, failed, ufp, trigger, session, store_meta, store_parts,
          object, calls, hash_obj, hash_rest, chunk>>

\* ------------------------------------------------------------- helpers
Min(a, b) == IF a < b THEN a ELSE b

\* All byte strings of length at most n.
RECURSIVE SeqsUpTo(_)
SeqsUpTo(n) ==
    IF n = 0 THEN {<<>>}
    ELSE LET shorter == SeqsUpTo(n - 1)
         IN  shorter \cup {Append(s, b) : s \in {t \in shorter : Len(t) = n - 1}, b \in Bytes}

\* hash_obj.update(chunk): fold the bytes of one chunk into the digest state.
RECURSIVE HashUpdate(_, _)
HashUpdate(h, data) ==
    IF data = <<>> THEN h
    ELSE HashUpdate((h * 3 + Head(data) + 1) % HashMod, Tail(data))

\* The loop of get_file_hash: read ReadChunk bytes at a time until the
\* read returns the empty string.
RECURSIVE HashChunks(_, _)
HashChunks(h, rest) ==
    IF rest = <<>> THEN h
    ELSE LET n == Min(ReadChunk, Len(rest))
         IN  HashChunks(HashUpdate(h, SubSeq(rest, 1, n)), SubSeq(rest, n + 1, Len(rest)))

\* base64.b64encode(...).decode(): an injective text encoding of the digest.
B64Encode(h) == <<"b64", h>>

get_file_hash(content) == B64Encode(HashChunks(0, content))

\* The quotient rounded down instead of up.
NumFilePiecesFloor(size, piece) == size \div piece

\* One more than the quotient rounded down.
NumFilePiecesPlusOne(size, piece) == size \div piece + 1

\* int(math.ceil(input_file_size / float(file_piece_size)))
NumFilePieces(size, piece) == (size + piece - 1) \div piece

\* Every read starts at the beginning of the input again.
ReadPieceFromStart(content, pos, piece) ==
    SubSeq(content, 1, Min(piece, Len(content)))

\* input_file.read(file_piece_size) at offset pos.
ReadPiece(content, pos, piece) ==
    SubSeq(content, pos + 1, Min(pos + piece, Len(content)))

Call(op, part, ok, etag, parts) ==
    [op |-> op, part |-> part, ok |-> ok, etag |-> etag, parts |-> parts]

\* Concatenation of the bodies of the listed parts, in list order.
RECURSIVE Assemble(_, _)
Assemble(parts, stored) ==
    IF parts = <<>> THEN <<>>
    ELSE stored[Head(parts).PartNumber].Body \o Assemble(Tail(parts), stored)

\* The store accepts a completion whose parts are stored under the ETags
\* given, in strictly ascending part-number order.
StoreAcceptsParts(parts, stored) ==
    /\ \A i \in 1..Len(parts) :
          /\ parts[i].PartNumber \in DOMAIN stored
          /\ stored[parts[i].PartNumber].ETag = parts[i].ETag
    /\ \A i \in 1..(Len(parts) - 1) : parts[i].PartNumber < parts[i + 1].PartNumber

\* ---------------------------------------------------------------- Init
Init ==
    /\ original_file \in SeqsUpTo(MaxFileSize)
    /\ file_piece_size \in 1..MaxPieceSize
    /\ keep_file_pieces \in BOOLEAN
    /\ store_faithful \in BOOLEAN
    /\ pc = "mkdtemp"
    /\ exc = "none"
    /\ temp_dir = "none"
    /\ piece_files = <<>>
    /\ num_file_pieces = 0
    /\ input_pos = 0
    /\ file_piece_names = <<>>
    /\ expected_hash = <<>>
    /\ expected_size = 0
    /\ upload_id = 0
    /\ fileparts = <<>>
    /\ complete_mpu_response = {}
    /\ index = 0
    /\ file_piece_hash = <<>>
    /\ head_object_response = <<>>
    /\ passed = <<>>
    /\ failed = <<>>
    /\ ufp = "not_called"
    /\ trigger = "none"
    /\ session = "none"
    /\ store_meta = <<>>
    /\ store_parts = <<>>
    /\ object = <<>>
    /\ calls = <<>>
    /\ hash_obj = 0
    /\ hash_rest = <<>>
    /\ chunk = <<>>

\* ------------------------------------------------------------ upload_file
\* Variables of upload_file_pieces and of the store.
ufpVars == <<upload_id, fileparts, complete_mpu_response, index, file_piece_hash,
             head_object_response, passed, failed, ufp, trigger>>
storeVars == <<session, store_meta, store_parts, object, calls>>
splitVars == <<piece_files, num_file_pieces, input_pos, file_piece_names>>
argVars == <<original_file, file_piece_size, keep_file_pieces, store_faithful>>
hashVars == <<hash_obj, hash_rest, chunk>>

\* Line 137: temp_dir = tempfile.mkdtemp(), outside the try.
Mkdtemp ==
    /\ pc = "mkdtemp"
    /\ \/ /\ temp_dir' = "exists"
          /\ pc' = "split"
          /\ exc' = exc
       \/ /\ temp_dir' = temp_dir
          /\ exc' = "OSError"
          /\ pc' = "raised"
    /\ UNCHANGED <<argVars, hashVars, splitVars, expected_hash, expected_size, ufpVars, storeVars>>

\* Lines 34-37: size of the input, number of pieces, open the input.
SplitOpen ==
    /\ pc = "split"
    /\ \/ /\ num_file_pieces' = NumFilePieces(Len(original_file), file_piece_size)
          /\ pc' = "split_loop"
          /\ exc' = exc
       \/ /\ num_file_pieces' = num_file_pieces
          /\ exc' = "IOError"
          /\ pc' = "uf_finally"
    /\ UNCHANGED <<argVars, hashVars, temp_dir, piece_files, input_pos, file_piece_names,
                   expected_hash, expected_size, ufpVars, storeVars>>

\* Lines 38-48: one iteration of the split loop; the name of piece index+1
\* stands for basename.zfill(index+1).
SplitWritePiece ==
    /\ pc = "split_loop"
    /\ Len(file_piece_names) < num_file_pieces
    /\ \/ /\ piece_files' = Append(piece_files,
                                   ReadPiece(original_file, input_pos, file_piece_size))
          /\ input_pos' = Min(input_pos + file_piece_size, Len(original_file))
          /\ file_piece_names' = Append(file_piece_names, Len(file_piece_names) + 1)
          /\ pc' = pc
          /\ exc' = exc
       \/ \* the write fails; the piece file it opened may be left behind
          /\ piece_files' \in {piece_files, Append(piece_files, <<>>)}
          /\ UNCHANGED <<input_pos, file_piece_names>>
          /\ exc' = "IOError"
          /\ pc' = "uf_finally"
    /\ UNCHANGED <<argVars, hashVars, temp_dir, num_file_pieces, expected_hash, expected_size,
                   ufpVars, storeVars>>

\* The loop ends one piece early.
SplitReturnOnePieceEarly ==
    /\ pc = "split_loop"
    /\ Len(file_piece_names) + 1 >= num_file_pieces
    /\ pc' = "hash_original"
    /\ UNCHANGED <<argVars, hashVars, exc, temp_dir, splitVars, expected_hash, expected_size,
                   ufpVars, storeVars>>

\* Line 49: the loop is over, split_input_file returns file_piece_names.
SplitReturn ==
    /\ pc = "split_loop"
    /\ Len(file_piece_names) = num_file_pieces
    /\ pc' = "hash_original"
    /\ UNCHANGED <<argVars, hashVars, exc, temp_dir, splitVars, expected_hash, expected_size,
                   ufpVars, storeVars>>

\* No chunk equals the sentinel (a bytes chunk against a str sentinel).
IsSentinelNever(c) == FALSE

\* Line 26: iter(read_chunk, ''), the chunk that ends the loop.
IsSentinel(c) == c = <<>>

\* Line 25: file_.read(hash_obj.block_size * 1024).
NextChunk(rest) == SubSeq(rest, 1, Min(ReadChunk, Len(rest)))
AfterChunk(rest) == SubSeq(rest, Len(NextChunk(rest)) + 1, Len(rest))

\* Lines 148, 23-25: get_file_hash(original_filename) creates hash_obj and
\* opens the file.
HashOriginal ==
    /\ pc = "hash_original"
    /\ \/ /\ hash_obj' = 0
          /\ hash_rest' = original_file
          /\ chunk' = <<>>
          /\ pc' = "hash_original_read"
          /\ exc' = exc
       \/ /\ UNCHANGED hashVars
          /\ exc' = "IOError"
          /\ pc' = "uf_finally"
    /\ UNCHANGED <<argVars, temp_dir, splitVars, expected_hash, expected_size,
                   ufpVars, storeVars>>

\* Line 26: the iterator calls read_chunk.
ReadOriginalChunk ==
    /\ pc = "hash_original_read"
    /\ \/ /\ chunk' = NextChunk(hash_rest)
          /\ hash_rest' = AfterChunk(hash_rest)
          /\ hash_obj' = hash_obj
          /\ pc' = "hash_original_update"
          /\ exc' = exc
       \/ /\ UNCHANGED hashVars
          /\ exc' = "IOError"
          /\ pc' = "uf_finally"
    /\ UNCHANGED <<argVars, temp_dir, splitVars, expected_hash, expected_size,
                   ufpVars, storeVars>>

\* Lines 26-30, 148-149: the chunk is the sentinel and get_file_hash returns
\* the encoded digest, upload_file_pieces being called with it and with the
\* size; or the chunk goes into hash_obj and the loop goes on.
UpdateOriginalHash ==
    /\ pc = "hash_original_update"
    /\ IF IsSentinel(chunk)
       THEN /\ expected_hash' = B64Encode(hash_obj)
            /\ expected_size' = Len(original_file)
            /\ ufp' = "running"
            /\ pc' = "create"
            /\ hash_obj' = hash_obj
       ELSE /\ hash_obj' = HashUpdate(hash_obj, chunk)
            /\ pc' = "hash_original_read"
            /\ UNCHANGED <<expected_hash, expected_size, ufp>>
    /\ UNCHANGED <<argVars, hash_rest, chunk, exc, temp_dir, splitVars, upload_id,
                   fileparts, complete_mpu_response, index, file_piece_hash,
                   head_object_response, passed, failed, trigger, storeVars>>

\* The flag read the wrong way round.
DeletesTempDirInverted(keep) == keep

\* Line 153: if not keep_file_pieces.
DeletesTempDir(keep) == ~keep

\* Lines 152-159: the finally block of upload_file; the exception that was
\* propagating, if any, is raised again after it.
UploadFileFinally ==
    /\ pc = "uf_finally"
    /\ IF DeletesTempDir(keep_file_pieces)
       THEN /\ temp_dir' = "removed"
            /\ piece_files' = <<>>
       ELSE UNCHANGED <<temp_dir, piece_files>>
    /\ pc' = IF exc = "none" THEN "returned" ELSE "raised"
    /\ UNCHANGED <<argVars, hashVars, exc, num_file_pieces, input_pos, file_piece_names,
                   expected_hash, expected_size, ufpVars, storeVars>>

\* ----------------------------------------------------- upload_file_pieces
fsVars == <<temp_dir, splitVars, expected_hash, expected_size>>

\* Lines 61-65: create_multipart_upload, outside the try. The store opens a
\* session and keeps the metadata.
CreateMultipartUpload ==
    /\ pc = "create"
    /\ \/ /\ session' = "InProgress"
          /\ store_meta' = [md5 |-> expected_hash]
          /\ calls' = Append(calls, Call("create", 0, TRUE, 0, <<>>))
          /\ pc' = "bind"
          /\ UNCHANGED <<exc, ufp>>
       \/ /\ calls' = Append(calls, Call("create", 0, FALSE, 0, <<>>))
          /\ exc' = "ClientError"
          /\ ufp' = "raised"
          /\ pc' = "uf_finally"
          /\ UNCHANGED <<session, store_meta>>
    /\ UNCHANGED <<argVars, hashVars, fsVars, upload_id, fileparts, complete_mpu_response,
                   index, file_piece_hash, head_object_response, passed, failed,
                   trigger, store_parts, object>>

\* Lines 66-70: upload_id, fileparts and complete_mpu_response are bound;
\* the try starts after them.
BindUploadId ==
    /\ pc = "bind"
    /\ upload_id' = 1
    /\ fileparts' = <<>>
    /\ complete_mpu_response' = {}
    /\ index' = 0
    /\ pc' = "loop"
    /\ UNCHANGED <<argVars, hashVars, fsVars, exc, file_piece_hash, head_object_response,
                   passed, failed, ufp, trigger, storeVars>>

\* Part numbers taken from the 0-based loop index.
PartNumZeroBased(i) == i

\* Line 73: part_num = index + 1.
PartNum(i) == i + 1

\* Lines 93-96: the entry appended to fileparts['Parts'].
PartEntry(etag, part_num) == [ETag |-> etag, PartNumber |-> part_num]

\* Lines 72-74, 23-25: the loop takes the next piece and
\* get_file_hash(file_piece_name) opens it, inside the try.
HashPiece ==
    /\ pc = "loop"
    /\ index < Len(file_piece_names)
    /\ \/ /\ hash_obj' = 0
          /\ hash_rest' = piece_files[file_piece_names[index + 1]]
          /\ chunk' = <<>>
          /\ pc' = "hash_piece_read"
          /\ UNCHANGED <<exc, trigger>>
       \/ /\ UNCHANGED hashVars
          /\ exc' = "IOError"
          /\ trigger' = "IOError"
          /\ pc' = "finally"
    /\ UNCHANGED <<argVars, fsVars, upload_id, fileparts, complete_mpu_response,
                   index, file_piece_hash, head_object_response, passed, failed,
                   ufp, storeVars>>

\* Line 26: the iterator calls read_chunk on the piece.
ReadPieceChunk ==
    /\ pc = "hash_piece_read"
    /\ \/ /\ chunk' = NextChunk(hash_rest)
          /\ hash_rest' = AfterChunk(hash_rest)
          /\ hash_obj' = hash_obj
          /\ pc' = "hash_piece_update"
          /\ UNCHANGED <<exc, trigger>>
       \/ /\ UNCHANGED hashVars
          /\ exc' = "IOError"
          /\ trigger' = "IOError"
          /\ pc' = "finally"
    /\ UNCHANGED <<argVars, fsVars, upload_id, fileparts, complete_mpu_response,
                   index, file_piece_hash, head_object_response, passed, failed,
                   ufp, storeVars>>

\* Lines 26-30, 74: the chunk is the sentinel and file_piece_hash is the
\* encoded digest; or the chunk goes into hash_obj and the loop goes on.
UpdatePieceHash ==
    /\ pc = "hash_piece_update"
    /\ IF IsSentinel(chunk)
       THEN /\ file_piece_hash' = B64Encode(hash_obj)
            /\ pc' = "upload_part"
            /\ hash_obj' = hash_obj
       ELSE /\ hash_obj' = HashUpdate(hash_obj, chunk)
            /\ pc' = "hash_piece_read"
            /\ file_piece_hash' = file_piece_hash
    /\ UNCHANGED <<argVars, hash_rest, chunk, fsVars, exc, trigger, upload_id,
                   fileparts, complete_mpu_response, index, head_object_response,
                   passed, failed, ufp, storeVars>>

\* Lines 84-96: upload_part with the piece as Body and its digest as
\* ContentMD5. The store keeps the part only if its own digest of the body
\* agrees, and answers with an ETag.
UploadPart ==
    /\ pc = "upload_part"
    /\ LET part_num == PartNum(index)
           body == piece_files[file_piece_names[index + 1]]
       IN  \/ \E etag \in ETags :
                /\ session = "InProgress"
                /\ get_file_hash(body) = file_piece_hash
                /\ store_parts' = (part_num :> [ETag |-> etag, Body |-> body]) @@ store_parts
                /\ calls' = Append(calls, Call("upload_part", part_num, TRUE, etag, <<>>))
                /\ fileparts' = Append(fileparts, PartEntry(etag, part_num))
                /\ index' = index + 1
                /\ pc' = "loop"
                /\ UNCHANGED <<exc, trigger>>
           \/ /\ calls' = Append(calls, Call("upload_part", part_num, FALSE, 0, <<>>))
              /\ exc' = "PartUploadError"
              /\ trigger' = "PartUploadError"
              /\ pc' = "finally"
              /\ UNCHANGED <<store_parts, fileparts, index>>
    /\ UNCHANGED <<argVars, hashVars, fsVars, upload_id, complete_mpu_response, file_piece_hash,
                   head_object_response, passed, failed, ufp, session, store_meta,
                   object>>

\* Lines 97-104: complete_multipart_upload with fileparts. The store
\* assembles the listed parts into the object, or rejects the request. A
\* response carries an ETag or not.
CompleteMultipartUpload ==
    /\ pc = "loop"
    /\ index = Len(file_piece_names)
    /\ \/ \E response \in {{"ETag", "Location"}, {}} :
            /\ session = "InProgress"
            /\ StoreAcceptsParts(fileparts, store_parts)
            /\ session' = "Completed"
            /\ object' = <<[Body |-> Assemble(fileparts, store_parts),
                            Metadata |-> store_meta]>>
            /\ store_parts' = <<>>
            /\ calls' = Append(calls, Call("complete", 0, TRUE, 0, fileparts))
            /\ complete_mpu_response' = response
            /\ UNCHANGED <<exc, trigger>>
       \/ /\ calls' = Append(calls, Call("complete", 0, FALSE, 0, fileparts))
          /\ exc' = "FinalizeError"
          /\ trigger' = "FinalizeError"
          /\ UNCHANGED <<session, object, store_parts, complete_mpu_response>>
    /\ pc' = "finally"
    /\ UNCHANGED <<argVars, hashVars, fsVars, upload_id, fileparts, index, file_piece_hash,
                   head_object_response, passed, failed, ufp, store_meta>>

\* The membership test without its negation.
NeedsAbortInverted(response) == "ETag" \in response

\* Line 106: if 'ETag' not in complete_mpu_response.
NeedsAbort(response) == "ETag" \notin response

\* Lines 105-106: the finally block is entered, on every way out of the try.
FinallyCheck ==
    /\ pc = "finally"
    /\ pc' = IF NeedsAbort(complete_mpu_response) THEN "abort" ELSE "after_finally"
    /\ UNCHANGED <<argVars, hashVars, fsVars, exc, ufpVars, storeVars>>

\* What propagates when a call in a finally block raises new while
\* pending was propagating.
RaisedInFinally(pending, new) == new

\* Lines 107-113: abort_multipart_upload. The store discards the parts of a
\* live session. For a session that is over it answers as it sees fit: with
\* an error (no such upload), or with success and no effect.
AbortMultipartUpload ==
    /\ pc = "abort"
    /\ \/ /\ session = "InProgress"
          /\ session' = "Aborted"
          /\ store_parts' = <<>>
          /\ calls' = Append(calls, Call("abort", 0, TRUE, 0, <<>>))
          /\ exc' = exc
       \/ /\ session # "InProgress"
          /\ calls' = Append(calls, Call("abort", 0, TRUE, 0, <<>>))
          /\ exc' = exc
          /\ UNCHANGED <<session, store_parts>>
       \/ /\ calls' = Append(calls, Call("abort", 0, FALSE, 0, <<>>))
          /\ exc' = RaisedInFinally(exc, "AbortError")
          /\ UNCHANGED <<session, store_parts>>
    /\ pc' = "after_finally"
    /\ UNCHANGED <<argVars, hashVars, fsVars, ufpVars, store_meta, object>>

\* End of the finally block: a propagating exception leaves
\* upload_file_pieces, otherwise line 115 is next.
AfterFinally ==
    /\ pc = "after_finally"
    /\ IF exc = "none"
       THEN /\ pc' = "head"
            /\ ufp' = ufp
       ELSE /\ pc' = "uf_finally"
            /\ ufp' = "raised"
    /\ UNCHANGED <<argVars, hashVars, fsVars, exc, upload_id, fileparts, complete_mpu_response,
                   index, file_piece_hash, head_object_response, passed, failed,
                   trigger, storeVars>>

\* What head_object can answer: the assembled object's length and metadata
\* from a faithful store, anything otherwise (the key is shared with other
\* writers).
HeadResponses ==
    IF store_faithful
    THEN {[ContentLength |-> Len(object[i].Body), Metadata |-> object[i].Metadata] :
            i \in DOMAIN object}
    ELSE [ContentLength : 0..MaxFileSize,
          Metadata : [md5 : {B64Encode(h) : h \in 0..(HashMod - 1)}]]

\* Line 115: head_object.
HeadObject ==
    /\ pc = "head"
    /\ \/ \E response \in HeadResponses :
            /\ head_object_response' = response
            /\ calls' = Append(calls, Call("head", 0, TRUE, 0, <<>>))
            /\ pc' = "assert"
            /\ UNCHANGED <<exc, ufp>>
       \/ /\ calls' = Append(calls, Call("head", 0, FALSE, 0, <<>>))
          /\ exc' = "ClientError"
          /\ ufp' = "raised"
          /\ pc' = "uf_finally"
          /\ UNCHANGED head_object_response
    /\ UNCHANGED <<argVars, hashVars, fsVars, upload_id, fileparts, complete_mpu_response,
                   index, file_piece_hash, passed, failed, trigger, session,
                   store_meta, store_parts, object>>

\* The tuple of assertions with the digest of the last piece as the expected
\* digest.
AssertionsExpectLastPieceHash ==
    << [description |-> "hashes for combined files are equal",
        expected |-> file_piece_hash,
        found |-> head_object_response.Metadata.md5],
       [description |-> "file sizes of combined files are equal",
        expected |-> expected_size,
        found |-> head_object_response.ContentLength] >>

\* Lines 116-127: the tuple of assertions.
Assertions ==
    << [description |-> "hashes for combined files are equal",
        expected |-> expected_hash,
        found |-> head_object_response.Metadata.md5],
       [description |-> "file sizes of combined files are equal",
        expected |-> expected_size,
        found |-> head_object_response.ContentLength] >>

\* The expected value compared with itself.
AssertionComparesExpectedOnly(assertion) == assertion.expected = assertion.expected

\* Line 129: assert assertion['expected'] == assertion['found'].
AssertionHolds(assertion) == assertion.expected = assertion.found

\* A failed assertion sends the run to the abort call before it raises.
CheckAssertionThenAbort ==
    /\ pc = "assert"
    /\ Len(passed) < Len(Assertions)
    /\ LET assertion == Assertions[Len(passed) + 1]
       IN  IF AssertionHolds(assertion)
           THEN /\ passed' = Append(passed, assertion.description)
                /\ UNCHANGED <<failed, exc, ufp, pc>>
           ELSE /\ failed' = Append(failed, assertion.description)
                /\ exc' = "AssertionError"
                /\ ufp' = ufp
                /\ pc' = "abort"
                /\ passed' = passed
    /\ UNCHANGED <<argVars, hashVars, fsVars, upload_id, fileparts, complete_mpu_response,
                   index, file_piece_hash, head_object_response, trigger, storeVars>>

\* Lines 128-131: one iteration of the loop over the assertions; a failed
\* assert raises AssertionError and ends the loop.
CheckAssertion ==
    /\ pc = "assert"
    /\ Len(passed) < Len(Assertions)
    /\ LET assertion == Assertions[Len(passed) + 1]
       IN  IF AssertionHolds(assertion)
           THEN /\ passed' = Append(passed, assertion.description)
                /\ UNCHANGED <<failed, exc, ufp, pc>>
           ELSE /\ failed' = Append(failed, assertion.description)
                /\ exc' = "AssertionError"
                /\ ufp' = "raised"
                /\ pc' = "uf_finally"
                /\ passed' = passed
    /\ UNCHANGED <<argVars, hashVars, fsVars, upload_id, fileparts, complete_mpu_response,
                   index, file_piece_hash, head_object_response, trigger, storeVars>>

\* Line 132: every assertion passed, upload_file_pieces returns.
UploadFilePiecesReturn ==
    /\ pc = "assert"
    /\ Len(passed) = Len(Assertions)
    /\ ufp' = "returned"
    /\ pc' = "uf_finally"
    /\ UNCHANGED <<argVars, hashVars, fsVars, exc, upload_id, fileparts, complete_mpu_response,
                   index, file_piece_hash, head_object_response, passed, failed,
                   trigger, storeVars>>

\* ------------------------------------------------------- specifications
Next ==
    \/ Mkdtemp
    \/ SplitOpen
    \/ SplitWritePiece
    \/ SplitReturn
    \/ HashOriginal
    \/ ReadOriginalChunk
    \/ UpdateOriginalHash
    \/ CreateMultipartUpload
    \/ BindUploadId
    \/ HashPiece
    \/ ReadPieceChunk
    \/ UpdatePieceHash
    \/ UploadPart
    \/ CompleteMultipartUpload
    \/ FinallyCheck
    \/ AbortMultipartUpload
    \/ AfterFinally
    \/ HeadObject
    \/ CheckAssertion
    \/ UploadFilePiecesReturn
    \/ UploadFileFinally

Spec == Init /\ [][Next]_vars

\* The positions inside the try of upload_file_pieces (lines 72-104).
InTry == {"loop", "hash_piece_read", "hash_piece_update", "upload_part"}

\* A KeyboardInterrupt (SIGINT) is raised between two statements of the
\* run. Control goes to the innermost enclosing finally block: the one of
\* upload_file_pieces for the statements of its try (lines 72-104), the one
\* of upload_file for every other statement after line 137, finally blocks
\* included.
Interrupt ==
    /\ pc \in {"mkdtemp", "split", "split_loop", "hash_original",
               "hash_original_read", "hash_original_update", "create", "bind",
               "loop", "hash_piece_read", "hash_piece_update", "upload_part",
               "finally", "abort", "head", "assert", "uf_finally"}
    /\ exc' = "KeyboardInterrupt"
    /\ pc' = CASE pc \in InTry -> "finally"
               [] pc \in {"mkdtemp", "uf_finally"} -> "raised"
               [] OTHER -> "uf_finally"
    /\ trigger' = IF pc \in InTry THEN "KeyboardInterrupt" ELSE trigger
    /\ ufp' = IF pc \in {"create", "bind", "finally", "abort", "head", "assert"}
              THEN "raised" ELSE ufp
    /\ UNCHANGED <<argVars, hashVars, fsVars, upload_id, fileparts, complete_mpu_response,
                   index, file_piece_hash, head_object_response, passed, failed,
                   storeVars>>

NextInterrupt == Next \/ Interrupt

\* The run with interrupts.
SpecInterrupt == Init /\ [][NextInterrupt]_vars

\* ------------------------------------------------------------ the claims
CallsOf(op) == {i \in DOMAIN calls : calls[i].op = op}
OkCallsOf(op) == {i \in CallsOf(op) : calls[i].ok}
FailedCallsOf(op) == {i \in CallsOf(op) : ~calls[i].ok}

\* upload_file_pieces has given control back to upload_file.
UfpEnded == ufp \in {"returned", "raised"}
\* upload_file has given control back to its caller.
RunEnded == pc \in {"returned", "raised"}

\* C1: whenever create_multipart_upload succeeded and
\* complete_multipart_upload did not return successfully, an
\* abort_multipart_upload call has been issued by the time upload_file_pieces
\* gives control back, interrupted runs included.
C1_AbortIssuedWheneverNotFinalized ==
    (UfpEnded /\ OkCallsOf("create") # {} /\ OkCallsOf("complete") = {})
        => CallsOf("abort") # {}

\* C2: no abort_multipart_upload call follows a complete_multipart_upload
\* call that returned successfully, whatever its response holds, and no
\* complete_multipart_upload call follows an abort_multipart_upload call.
C2_NeverBothFinalizeAndAbort ==
    /\ \A i \in OkCallsOf("complete") : \A j \in CallsOf("abort") : j < i
    /\ \A i \in CallsOf("abort") : \A j \in CallsOf("complete") : j < i

\* C3: once upload_file_pieces has returned or raised, a session that was
\* begun is Completed or Aborted at the store, also when the abort call
\* failed.
C3_NoSessionLeftInProgress ==
    (UfpEnded /\ OkCallsOf("create") # {}) => session \in {"Completed", "Aborted"}

\* C4: when an error inside the try triggered an abort and the abort call
\* failed, the exception that leaves upload_file_pieces is still the
\* triggering error.
C4_AbortFailureKeepsOriginalError ==
    (ufp = "raised" /\ trigger # "none" /\ FailedCallsOf("abort") # {})
        => exc = trigger

\* C5: after a failed upload_part call for part k there is no further
\* upload_part call (for k or any later part) and no
\* complete_multipart_upload call; by the time upload_file_pieces gives
\* control back exactly one abort_multipart_upload call has been issued, and
\* the run ends with an error.
C5_FailedPartEndsTheUpload ==
    \A i \in FailedCallsOf("upload_part") :
        /\ \A j \in CallsOf("upload_part") \ {i} : j < i /\ calls[j].part < calls[i].part
        /\ CallsOf("complete") = {}
        /\ Cardinality(CallsOf("abort")) <= 1
        /\ ufp # "returned"
        /\ UfpEnded => (Cardinality(CallsOf("abort")) = 1 /\ ufp = "raised")
        /\ RunEnded => pc = "raised"

\* The upload of part 2 failed, one abort was issued and the run is over.
C5_Witness ==
    /\ pc = "raised"
    /\ \E i \in FailedCallsOf("upload_part") : calls[i].part = 2
    /\ Cardinality(CallsOf("abort")) = 1

\* C6: if a part upload failed, then once the run has ended the store holds
\* no part of the session and no live upload id for it.
C6_NothingRetainedAfterPartFailure ==
    (RunEnded /\ FailedCallsOf("upload_part") # {})
        => (store_parts = <<>> /\ session # "InProgress")

\* C7: the n-th upload_part call carries part number n, and every
\* complete_multipart_upload call is given one entry per piece, numbered
\* 1..N in this order, each with the ETag the store returned for the
\* upload_part call of that part number.
C7_PartsAscendingAndComplete ==
    /\ \A i \in CallsOf("upload_part") :
          calls[i].part = Cardinality({j \in CallsOf("upload_part") : j <= i})
    /\ \A c \in CallsOf("complete") :
          LET parts == calls[c].parts
          IN  /\ Len(parts) = Len(file_piece_names)
              /\ Len(parts) = NumFilePieces(Len(original_file), file_piece_size)
              /\ \A k \in 1..Len(parts) :
                    /\ parts[k].PartNumber = k
                    /\ \E u \in OkCallsOf("upload_part") :
                          /\ u < c
                          /\ calls[u].part = k
                          /\ calls[u].etag = parts[k].ETag

\* A completion was issued for three parts whose ETags are not all equal.
C7_Witness ==
    \E c \in CallsOf("complete") :
        /\ Len(calls[c].parts) = 3
        /\ calls[c].parts[1].ETag # calls[c].parts[2].ETag

\* C8: with keep_file_pieces false, once upload_file has ended the
\* temporary directory it created, and every piece file in it, is gone.
C8_TempDirRemovedOnEveryExit ==
    (RunEnded /\ ~keep_file_pieces /\ temp_dir # "none")
        => (temp_dir = "removed" /\ piece_files = <<>>)

\* The run ended with the error of a failed abort and the directory is gone.
C8_Witness ==
    /\ pc = "raised"
    /\ exc = "AbortError"
    /\ ~keep_file_pieces
    /\ temp_dir = "removed"

\* C9: once head_object has answered and upload_file_pieces has ended, every
\* assertion that does not hold has been evaluated and reported as failed.
C9_BothChecksEvaluated ==
    (UfpEnded /\ head_object_response # <<>>)
        => \A k \in DOMAIN Assertions :
              ~AssertionHolds(Assertions[k])
                  => \E f \in DOMAIN failed : failed[f] = Assertions[k].description

\* The digest or the size head_object reported differs from the source's.
HeadMismatch ==
    /\ head_object_response # <<>>
    /\ \/ head_object_response.ContentLength # Len(original_file)
       \/ head_object_response.Metadata.md5 # get_file_hash(original_file)

\* C10: upload_file returns without raising only if
\* complete_multipart_upload succeeded and head_object reported the source's
\* size and digest; a run with a digest mismatch, a size mismatch or a failed
\* part upload ends with a raised error.
C10_ReturnsOnlyWhenVerified ==
    /\ pc = "returned"
          => /\ OkCallsOf("complete") # {}
             /\ head_object_response # <<>>
             /\ ~HeadMismatch
    /\ (RunEnded /\ (HeadMismatch \/ FailedCallsOf("upload_part") # {}))
          => pc = "raised"

\* upload_file returned after a two-part upload against a store whose
\* head_object answers are not tied to the assembled object.
C10_Witness ==
    /\ pc = "returned"
    /\ Len(fileparts) >= 2
    /\ ~store_faithful

\* C11: once complete_multipart_upload has succeeded, the object under the
\* key holds exactly the bytes of the source file, and its md5 metadata is
\* the digest of the source file.
C11_ObjectEqualsSource ==
    OkCallsOf("complete") # {}
        => /\ Len(object) = 1
           /\ object[1].Body = original_file
           /\ object[1].Metadata.md5 = get_file_hash(original_file)

\* upload_file returned after uploading a three-byte file of mixed bytes in
\* more than one part.
C11_Witness ==
    /\ pc = "returned"
    /\ original_file = <<0, 1, 1>>
    /\ Len(fileparts) >= 2
    /\ object[1].Body = original_file

\* ------------------------------------------------ split_input_file alone
\* A file of n bytes whose neighbouring bytes differ.
Pattern(n) == [i \in 1..n |-> i % 2]

\* split_input_file called on its own, on an existing directory (as the
\* tests call it), for larger files and piece sizes.
InitSplit ==
    /\ original_file \in {Pattern(n) : n \in 0..MaxSplitFileSize}
    /\ file_piece_size \in 1..MaxSplitPieceSize
    /\ keep_file_pieces = FALSE
    /\ store_faithful = TRUE
    /\ pc = "split"
    /\ exc = "none"
    /\ temp_dir = "exists"
    /\ piece_files = <<>>
    /\ num_file_pieces = 0
    /\ input_pos = 0
    /\ file_piece_names = <<>>
    /\ expected_hash = <<>>
    /\ expected_size = 0
    /\ upload_id = 0
    /\ fileparts = <<>>
    /\ complete_mpu_response = {}
    /\ index = 0
    /\ file_piece_hash = <<>>
    /\ head_object_response = <<>>
    /\ passed = <<>>
    /\ failed = <<>>
    /\ ufp = "not_called"
    /\ trigger = "none"
    /\ session = "none"
    /\ store_meta = <<>>
    /\ store_parts = <<>>
    /\ object = <<>>
    /\ calls = <<>>
    /\ hash_obj = 0
    /\ hash_rest = <<>>
    /\ chunk = <<>>

NextSplit ==
    \/ SplitOpen
    \/ SplitWritePiece
    \/ SplitReturn

SpecSplit == InitSplit /\ [][NextSplit]_vars

\* split_input_file has returned file_piece_names.
SplitReturned == pc = "hash_original"

\* Sizes of the piece files, in the order of file_piece_names.
PieceSizes ==
    [i \in 1..Len(file_piece_names) |-> Len(piece_files[file_piece_names[i]])]

RECURSIVE SumSeq(_)
SumSeq(q) == IF q = <<>> THEN 0 ELSE Head(q) + SumSeq(Tail(q))

\* C12: the pieces split_input_file returns are in ascending index order,
\* their sizes add up to the size of the source, none is larger than the
\* piece size and every piece but the last has exactly the piece size; 50
\* bytes with piece size 20 give 20, 20, 10.
C12_SplitSizes ==
    SplitReturned
        => /\ \A i \in 1..Len(file_piece_names) : file_piece_names[i] = i
           /\ SumSeq(PieceSizes) = Len(original_file)
           /\ \A i \in 1..Len(PieceSizes) : PieceSizes[i] <= file_piece_size
           /\ \A i \in 1..(Len(PieceSizes) - 1) : PieceSizes[i] = file_piece_size
           /\ (Len(original_file) = 50 /\ file_piece_size = 20)
                 => PieceSizes = <<20, 20, 10>>

\* 50 bytes were split with piece size 20.
C12_Witness ==
    /\ SplitReturned
    /\ Len(original_file) = 50
    /\ file_piece_size = 20
    /\ Len(file_piece_names) = 3

\* C17: split_input_file writes ceil(S / M) pieces, none of them empty, the
\* last one holding the remainder S - (n - 1) * M; the list is empty exactly
\* when the source is empty.
C17_PieceCountAndRemainder ==
    SplitReturned
        => LET S == Len(original_file)
               M == file_piece_size
               n == Len(file_piece_names)
           IN  /\ n * M >= S
               /\ n = 0 \/ (n - 1) * M < S
               /\ Len(piece_files) = n
               /\ \A i \in 1..n : PieceSizes[i] > 0
               /\ n > 0 => PieceSizes[n] = S - (n - 1) * M
               /\ (n = 0) <=> (S = 0)

\* 49 bytes were split with piece size 7: the size is a multiple of the
\* piece size and the last piece is a full one.
C17_Witness ==
    /\ SplitReturned
    /\ Len(original_file) = 49
    /\ file_piece_size = 7
    /\ Len(file_piece_names) = 7
    /\ PieceSizes[7] = 7

\* C14: a remote call is issued only after split_input_file has written
\* every piece and the digest of the whole file has been computed; the
\* temporary directory of a run that began a session is removed only after
\* a complete_multipart_upload or abort_multipart_upload call has returned
\* or failed; and once it is removed the run takes no further step, so no
\* part upload can follow.
C14_LifecycleOrder ==
    /\ calls # <<>>
          => /\ Len(file_piece_names) = num_file_pieces
             /\ num_file_pieces = NumFilePieces(Len(original_file), file_piece_size)
             /\ temp_dir = "exists"
                   => /\ Len(piece_files) = num_file_pieces
                      /\ \A i \in 1..num_file_pieces : Len(piece_files[i]) > 0
             /\ expected_hash = get_file_hash(original_file)
    /\ (temp_dir = "removed" /\ OkCallsOf("create") # {})
          => CallsOf("complete") \cup CallsOf("abort") # {}
    /\ temp_dir = "removed" => (RunEnded /\ ~ENABLED Next)

\* The directory was removed after two parts were uploaded and the session
\* was aborted.
C14_Witness ==
    /\ temp_dir = "removed"
    /\ Cardinality(OkCallsOf("upload_part")) = 2
    /\ OkCallsOf("abort") # {}

\* C15: a head_object call is only issued after a successful
\* complete_multipart_upload call, and never in a run in which an
\* abort_multipart_upload call was issued; after an abort call no assertion
\* is evaluated.
C15_VerifierOnlyWithoutAbort ==
    /\ \A h \in CallsOf("head") : \E c \in OkCallsOf("complete") : c < h
    /\ CallsOf("abort") # {}
          => (CallsOf("head") = {} /\ passed = <<>> /\ failed = <<>>)

\* C16: from the failure of an assertion on, no remote call is issued and
\* the store keeps the session Completed and the object as it is; the run
\* ends by raising the AssertionError.
C16_NoRemediationAfterMismatch ==
    /\ [][failed' # <<>> => UNCHANGED <<calls, session, store_meta, store_parts, object>>]_vars
    /\ [](failed # <<>> =>
            /\ session = "Completed"
            /\ Len(object) = 1
            /\ calls[Len(calls)].op = "head"
            /\ exc = "AssertionError"
            /\ RunEnded => pc = "raised")

\* The run has ended on a failed size check with the object in place.
C16_Witness ==
    /\ pc = "raised"
    /\ failed = <<"file sizes of combined files are equal">>
    /\ Len(object) = 1

\* The run under the assumption that every remote call and every file
\* operation returns or fails: a step that can be taken is taken.
SpecLive == Spec /\ WF_vars(Next)

\* C18: every run of upload_file ends, by returning or by raising; the split
\* loop writes at most num_file_pieces pieces and the upload loop issues at
\* most one upload_part call per piece, none of them repeated.
C18_EveryRunEnds ==
    /\ <>RunEnded
    /\ [](/\ Len(piece_files) <= NumFilePieces(Len(original_file), file_piece_size)
          /\ Cardinality(CallsOf("upload_part")) <= Len(file_piece_names)
          /\ \A i, j \in CallsOf("upload_part") :
                 calls[i].part = calls[j].part => i = j)

\* upload_file returned after hashing and uploading three pieces.
C18_Witness ==
    /\ pc = "returned"
    /\ Len(fileparts) = 3
    /\ IsSentinel(chunk)


\* C19: once a session was begun the store holds the digest this run
\* computed as the object's metadata; whenever head_object returns that
\* metadata unchanged the digest check passes, and upload_file_pieces returns
\* exactly when the reported size equals the source's size and raises on the
\* size check alone otherwise.
C19_DigestCheckReadsOwnMetadata ==
    /\ session # "none" => store_meta = [md5 |-> expected_hash]
    /\ (head_object_response # <<>> /\ head_object_response.Metadata = store_meta)
          => /\ \A f \in DOMAIN failed :
                    failed[f] # "hashes for combined files are equal"
             /\ UfpEnded
                   => /\ passed # <<>>
                      /\ passed[1] = "hashes for combined files are equal"
                      /\ ufp = "returned"
                            <=> head_object_response.ContentLength = expected_size
                      /\ ufp = "raised"
                            <=> failed = <<"file sizes of combined files are equal">>

\* The store returned the metadata unchanged and a size that is not the
\* object's: the digest check passed and the size check failed.
C19_Witness ==
    /\ head_object_response # <<>>
    /\ head_object_response.Metadata = store_meta
    /\ head_object_response.ContentLength # Len(object[1].Body)
    /\ passed = <<"hashes for combined files are equal">>
    /\ failed = <<"file sizes of combined files are equal">>


\* C20: for an empty source file the split yields no piece, the run begins a
\* session, issues no upload_part call and issues complete_multipart_upload
\* with an empty part list; if that call is rejected, upload_file_pieces
\* raises with the session Aborted.
C20_EmptyFileRun ==
    Len(original_file) = 0
       => /\ file_piece_names = <<>>
          /\ num_file_pieces = 0
          /\ UfpEnded => CallsOf("create") # {}
          /\ CallsOf("upload_part") = {}
          /\ \A c \in CallsOf("complete") : calls[c].parts = <<>>
          /\ (UfpEnded /\ OkCallsOf("create") # {}) => CallsOf("complete") # {}
          /\ (UfpEnded /\ FailedCallsOf("complete") # {})
                => /\ ufp = "raised"
                   /\ CallsOf("abort") # {}
                   /\ session = "Aborted"

====
